---- MODULE Spec2Model ----
(***************************************************************************)
(* Event ticketing canister (my_rust_project_backend/src/lib.rs).          *)
(*                                                                         *)
(* The canister state is the eight thread_local cells; every update call  *)
(* runs to completion before the next one starts, so each canister method *)
(* is one action.  `now` is the value ic_cdk::api::time() returns.  `last` *)
(* is the call being answered: the method, its caller and arguments and   *)
(* what it returned; it is cleared when the response has been delivered,  *)
(* and the canister takes the next message only then.                     *)
(***************************************************************************)
EXTENDS Integers, Sequences, FiniteSets, TLC

\* ---------------------------------------------------------------- bounds
MaxSize == 5
MaxQuantity == 2

\* ------------------------------------------------------ input universes
Principals == {"alice", "bob"}
Names == {"Concert"}
Descriptions == {"Live"}
Venues == {"Hall"}
Dates == {9}
SaleStartChoices == {1}
SaleEndChoices == {1}

\* ------------------------------------------------- 64-bit price values
\* A u64 is kept as four little-endian limbs of LimbBits bits each.
LimbBits == 16
LimbBase == 2 ^ LimbBits
U64Limbs == 4

Price100 == <<100, 0, 0, 0>>
PriceHalfRange == <<0, 0, 0, 32768>>

\* what an organizer puts on sale: an event whose price times two tickets
\* passes 2^64, and a cheap one that sells one ticket per user
Offers ==
    { [total_tickets |-> 2, max_tickets_per_user |-> 2, price_icp |-> PriceHalfRange],
      [total_tickets |-> 2, max_tickets_per_user |-> 1, price_icp |-> Price100] }

RECURSIVE MulLimbs(_, _, _, _)
MulLimbs(x, q, i, carry) ==
    IF i > Len(x) THEN <<carry>>
    ELSE LET t == x[i] * q + carry
         IN  <<t % LimbBase>> \o MulLimbs(x, q, i + 1, t \div LimbBase)

\* price * quantity as a mathematical integer: U64Limbs limbs and the
\* part above 2^64 in the last position.
WideMul(x, q) == MulLimbs(x, q, 1, 0)

MulOverflows(x, q) == WideMul(x, q)[U64Limbs + 1] # 0

\* the low 64 bits of the product (what a wrapping u64 multiply yields)
WrappingMul(x, q) == SubSeq(WideMul(x, q), 1, U64Limbs)

\* ------------------------------------------------------------ formatting
HexDigits ==
    <<"0", "1", "2", "3", "4", "5", "6", "7",
      "8", "9", "A", "B", "C", "D", "E", "F">>

DecDigits == <<"0", "1", "2", "3", "4", "5", "6", "7", "8", "9">>

RECURSIVE ToHex(_)
ToHex(n) ==
    IF n < 16 THEN HexDigits[n + 1]
    ELSE ToHex(n \div 16) \o HexDigits[(n % 16) + 1]

RECURSIVE ToDec(_)
ToDec(n) ==
    IF n < 10 THEN DecDigits[n + 1]
    ELSE ToDec(n \div 10) \o DecDigits[(n % 10) + 1]

RECURSIVE PadZero(_, _)
PadZero(s, w) == IF Len(s) >= w THEN s ELSE PadZero("0" \o s, w)

CodeWidth == 8

\* faulty variant: both halves are formatted from the event id
generate_verification_code_SameArg(ticket_id, event_id) ==
    PadZero(ToHex(event_id), CodeWidth) \o "-" \o PadZero(ToHex(event_id), CodeWidth)

\* format!("{:08X}-{:08X}", ticket_id, event_id)
generate_verification_code(ticket_id, event_id) ==
    PadZero(ToHex(ticket_id), CodeWidth) \o "-" \o PadZero(ToHex(event_id), CodeWidth)

\* format!("SEAT-{}-{}", event_id, ticket_id)
seat_number(event_id, ticket_id) ==
    "SEAT-" \o ToDec(event_id) \o "-" \o ToDec(ticket_id)

\* ----------------------------------------------------------------- state
VARIABLES
    events,                 \* EVENTS: event id -> Event
    tickets,                \* TICKETS: ticket id -> Ticket
    purchases,              \* PURCHASES: purchase id -> Purchase
    user_profiles,          \* USER_PROFILES: principal -> UserProfile
    user_event_purchases,   \* USER_EVENT_PURCHASES: <<principal, event id>> -> count
    event_counter,          \* EVENT_COUNTER
    ticket_counter,         \* TICKET_COUNTER
    purchase_counter,       \* PURCHASE_COUNTER
    now,                    \* the canister clock read by time()
    last                    \* the call being answered, or Idle

store == <<events, tickets, purchases, user_profiles, user_event_purchases,
           event_counter, ticket_counter, purchase_counter>>

vars == <<events, tickets, purchases, user_profiles, user_event_purchases,
          event_counter, ticket_counter, purchase_counter, now, last>>

NoCode == ""

Call(op, caller, id, quantity, code, result, ret) ==
    [op |-> op, caller |-> caller, id |-> id, quantity |-> quantity,
     code |-> code, result |-> result, ret |-> ret]

\* BTreeMap / HashMap insert: add the key or overwrite its value
Insert(map, key, value) ==
    [k \in DOMAIN map \cup {key} |-> IF k = key THEN value ELSE map[k]]

\* The size of a run: the events created, the purchases made, the tickets
\* redeemed, the events deactivated, the profiles made for users who have
\* bought nothing, and the clock.  Runs are explored up to MaxSize.
Size ==
    event_counter + purchase_counter + now
    + Cardinality({t \in DOMAIN tickets : tickets[t].is_used})
    + Cardinality({e \in DOMAIN events : ~events[e].is_active})
    + Cardinality({u \in DOMAIN user_profiles : user_profiles[u].purchases = <<>>})

WithinBounds == Size' <= MaxSize

Idle == Call("idle", "none", 0, 0, NoCode, "Ok", {})

Init ==
    /\ events = <<>>
    /\ tickets = <<>>
    /\ purchases = <<>>
    /\ user_profiles = [u \in {} |-> 0]
    /\ user_event_purchases = [k \in {} |-> 0]
    /\ event_counter = 0
    /\ ticket_counter = 0
    /\ purchase_counter = 0
    /\ now = 0
    /\ last = Idle

\* ------------------------------------------------------------------ clock
Tick ==
    /\ last = Idle
    /\ now' = now + 1
    /\ UNCHANGED <<store, last>>
    /\ WithinBounds

\* the response of the call leaves the canister
Deliver ==
    /\ last # Idle
    /\ last' = Idle
    /\ UNCHANGED <<store, now>>

\* ----------------------------------------------------------- create_event
Event(id, name, description, venue, date, total_tickets, price_icp, organizer, max_tickets_per_user, sale_start_time, sale_end_time) ==
    [id |-> id, name |-> name, description |-> description, venue |-> venue,
     date |-> date, total_tickets |-> total_tickets,
     available_tickets |-> total_tickets, price_icp |-> price_icp,
     organizer |-> organizer, max_tickets_per_user |-> max_tickets_per_user,
     sale_start_time |-> sale_start_time, sale_end_time |-> sale_end_time,
     is_active |-> TRUE]

create_event(caller, name, description, venue, date, total_tickets, price_icp, max_tickets_per_user, sale_start_time, sale_end_time) ==
    /\ LET event_id == event_counter + 1
       IN  /\ event_counter' = event_id
           /\ events' = Insert(events, event_id,
                  Event(event_id, name, description, venue, date, total_tickets,
                        price_icp, caller, max_tickets_per_user,
                        sale_start_time, sale_end_time))
           /\ last' = Call("create_event", caller, event_id, 0, NoCode, "Ok", {})
    /\ UNCHANGED <<tickets, purchases, user_profiles, user_event_purchases,
                   ticket_counter, purchase_counter, now>>

CreateEvent ==
    /\ last = Idle
    /\ \E caller \in Principals, name \in Names, description \in Descriptions,
       venue \in Venues, date \in Dates, offer \in Offers,
       sale_start_time \in SaleStartChoices, sale_end_time \in SaleEndChoices :
        create_event(caller, name, description, venue, date,
                     offer.total_tickets, offer.price_icp,
                     offer.max_tickets_per_user, sale_start_time,
                     sale_end_time)
    /\ WithinBounds

\* ------------------------------------------------------- purchase_tickets
\* total_tickets, available_tickets, max_tickets_per_user, quantity and the
\* cumulative counts are u32 in the code.  One ticket record is minted per
\* unit of quantity, so the values met here stay far below 2^32 and the u32
\* sums and differences are the plain ones; the u64 product of line 219 is
\* the arithmetic that leaves its width, and is computed on limbs.
\* USER_EVENT_PURCHASES.get(&(caller, event_id)).copied().unwrap_or(0)
current_user_purchases(caller, event_id) ==
    IF <<caller, event_id>> \in DOMAIN user_event_purchases
    THEN user_event_purchases[<<caller, event_id>>]
    ELSE 0

\* faulty variant: a deactivated event still sells
purchase_checks_NoActive(caller, event_id, quantity, current_time) ==
    IF event_id \notin DOMAIN events THEN "EventNotFound"
    ELSE LET event == events[event_id]
         IN  IF current_time < event.sale_start_time THEN "SaleNotStarted"
             ELSE IF current_time > event.sale_end_time THEN "SaleEnded"
             ELSE IF event.available_tickets < quantity THEN "InsufficientTickets"
             ELSE IF current_user_purchases(caller, event_id) + quantity
                        > event.max_tickets_per_user
                  THEN "ExceedsMaxTicketsPerUser"
             ELSE "Ok"

\* faulty variant: the end of the sale window is not checked
purchase_checks_NoEnd(caller, event_id, quantity, current_time) ==
    IF event_id \notin DOMAIN events THEN "EventNotFound"
    ELSE LET event == events[event_id]
         IN  IF ~event.is_active THEN "EventInactive"
             ELSE IF current_time < event.sale_start_time THEN "SaleNotStarted"
             ELSE IF event.available_tickets < quantity THEN "InsufficientTickets"
             ELSE IF current_user_purchases(caller, event_id) + quantity
                        > event.max_tickets_per_user
                  THEN "ExceedsMaxTicketsPerUser"
             ELSE "Ok"

\* faulty variant: the availability check is missing
purchase_checks_NoStock(caller, event_id, quantity, current_time) ==
    IF event_id \notin DOMAIN events THEN "EventNotFound"
    ELSE LET event == events[event_id]
         IN  IF ~event.is_active THEN "EventInactive"
             ELSE IF current_time < event.sale_start_time THEN "SaleNotStarted"
             ELSE IF current_time > event.sale_end_time THEN "SaleEnded"
             ELSE IF current_user_purchases(caller, event_id) + quantity
                        > event.max_tickets_per_user
                  THEN "ExceedsMaxTicketsPerUser"
             ELSE "Ok"

\* the validation of purchase_tickets: the first failing check, or "Ok"
purchase_checks(caller, event_id, quantity, current_time) ==
    IF event_id \notin DOMAIN events THEN "EventNotFound"
    ELSE LET event == events[event_id]
         IN  IF ~event.is_active THEN "EventInactive"
             ELSE IF current_time < event.sale_start_time THEN "SaleNotStarted"
             ELSE IF current_time > event.sale_end_time THEN "SaleEnded"
             ELSE IF event.available_tickets < quantity THEN "InsufficientTickets"
             ELSE IF current_user_purchases(caller, event_id) + quantity
                        > event.max_tickets_per_user
                  THEN "ExceedsMaxTicketsPerUser"
             ELSE "Ok"

\* faulty variant: the ticket counter is read once, before the loop
minted_ticket_ids_Stale(counter, quantity) ==
    [i \in 1..quantity |-> counter + 1]

\* the ids the loop `for i in 0..quantity` draws from TICKET_COUNTER
minted_ticket_ids(counter, quantity) ==
    [i \in 1..quantity |-> counter + i]

Ticket(ticket_id, event_id, caller, current_time) ==
    [id |-> ticket_id, event_id |-> event_id, owner |-> caller,
     seat_number |-> seat_number(event_id, ticket_id),
     purchase_time |-> current_time, is_used |-> FALSE,
     verification_code |-> generate_verification_code(ticket_id, event_id)]

RECURSIVE insert_tickets(_, _, _, _, _, _)
insert_tickets(map, ticket_ids, i, event_id, caller, current_time) ==
    IF i > Len(ticket_ids) THEN map
    ELSE insert_tickets(
             Insert(map, ticket_ids[i],
                    Ticket(ticket_ids[i], event_id, caller, current_time)),
             ticket_ids, i + 1, event_id, caller, current_time)

Purchase(purchase_id, event_id, caller, quantity, total_amount, current_time, ticket_ids) ==
    [id |-> purchase_id, event_id |-> event_id, buyer |-> caller,
     quantity |-> quantity, total_amount |-> total_amount,
     purchase_time |-> current_time, ticket_ids |-> ticket_ids]

DefaultProfile(principal) ==
    [user_principal |-> principal, purchases |-> <<>>, tickets |-> <<>>,
     reputation_score |-> 100, is_verified |-> FALSE]

\* faulty variant: the stored profile is replaced by a default one
get_or_create_user_profile_Reset(profiles, principal) ==
    Insert(profiles, principal, DefaultProfile(principal))

\* USER_PROFILES after entry(principal).or_insert(default)
get_or_create_user_profile(profiles, principal) ==
    IF principal \in DOMAIN profiles THEN profiles
    ELSE Insert(profiles, principal, DefaultProfile(principal))

\* faulty variant: the quantity is counted twice
new_user_count_Twice(current, quantity) == current + quantity + quantity

\* faulty variant: the stored count is overwritten with this call's quantity
new_user_count_Overwrite(current, quantity) == quantity

\* the value written to USER_EVENT_PURCHASES
new_user_count(current, quantity) == current + quantity

\* faulty variant: PURCHASE_COUNTER is advanced before the request is validated
purchase_rejected_EarlyCounter(caller, event_id, quantity, err) ==
    /\ last' = Call("purchase_tickets", caller, event_id, quantity, NoCode, err, {})
    /\ purchase_counter' = purchase_counter + 1
    /\ UNCHANGED <<events, tickets, purchases, user_profiles,
                   user_event_purchases, event_counter, ticket_counter, now>>

\* an early `return Err(..)` of purchase_tickets
purchase_rejected(caller, event_id, quantity, err) ==
    /\ last' = Call("purchase_tickets", caller, event_id, quantity, NoCode, err, {})
    /\ UNCHANGED <<store, now>>

\* the u64 multiplication of line 219 overflowed in a build with overflow
\* checks: the call panics after PURCHASE_COUNTER has been advanced (lines
\* 213-217) and before anything else is written
purchase_trapped(caller, event_id, quantity) ==
    /\ last' = Call("purchase_tickets", caller, event_id, quantity, NoCode, "Trap", {})
    /\ purchase_counter' = purchase_counter + 1
    /\ UNCHANGED <<events, tickets, purchases, user_profiles,
                   user_event_purchases, event_counter, ticket_counter, now>>

purchase_accepted(caller, event_id, quantity, current_time) ==
    LET event == events[event_id]
        current == current_user_purchases(caller, event_id)
        purchase_id == purchase_counter + 1
        total_amount == WrappingMul(event.price_icp, quantity)
        ticket_ids == minted_ticket_ids(ticket_counter, quantity)
        purchase == Purchase(purchase_id, event_id, caller, quantity,
                             total_amount, current_time, ticket_ids)
        profile == get_or_create_user_profile(user_profiles, caller)[caller]
    IN  /\ purchase_counter' = purchase_id
        /\ ticket_counter' = ticket_counter + quantity
        /\ tickets' = insert_tickets(tickets, ticket_ids, 1, event_id, caller,
                                     current_time)
        /\ purchases' = Insert(purchases, purchase_id, purchase)
        /\ events' = [events EXCEPT ![event_id].available_tickets = @ - quantity]
        /\ user_event_purchases' =
               Insert(user_event_purchases, <<caller, event_id>>,
                      new_user_count(current, quantity))
        /\ user_profiles' =
               Insert(user_profiles, caller,
                      [profile EXCEPT !.purchases = Append(@, purchase_id),
                                      !.tickets = @ \o ticket_ids])
        /\ last' = Call("purchase_tickets", caller, event_id, quantity, NoCode,
                        "Ok", {purchase})
        /\ UNCHANGED <<event_counter, now>>

purchase_tickets(caller, event_id, quantity) ==
    LET current_time == now
        res == purchase_checks(caller, event_id, quantity, current_time)
    IN  IF res # "Ok"
        THEN purchase_rejected(caller, event_id, quantity, res)
        ELSE IF MulOverflows(events[event_id].price_icp, quantity)
             THEN \/ purchase_trapped(caller, event_id, quantity)
                  \/ purchase_accepted(caller, event_id, quantity, current_time)
             ELSE purchase_accepted(caller, event_id, quantity, current_time)

PurchaseTickets ==
    /\ last = Idle
    /\ \E caller \in Principals, event_id \in 1..(event_counter + 1),
       quantity \in 0..MaxQuantity :
        purchase_tickets(caller, event_id, quantity)
    /\ WithinBounds

\* ------------------------------------------------------------- use_ticket
WrongCode == "00000000-00000000"

\* the codes presented at the gate: those of the tickets issued, and one
\* that no ticket carries
PresentedCodes ==
    {tickets[t].verification_code : t \in DOMAIN tickets} \cup {WrongCode}

\* faulty variant: the used check is missing
use_ticket_checks_NoUsed(caller, ticket_id, verification_code) ==
    IF ticket_id \notin DOMAIN tickets THEN "TicketNotFound"
    ELSE LET ticket == tickets[ticket_id]
         IN  IF ticket.verification_code # verification_code
             THEN "InvalidVerificationCode"
             ELSE IF ticket.event_id \notin DOMAIN events THEN "EventNotFound"
             ELSE IF caller # events[ticket.event_id].organizer THEN "Unauthorized"
             ELSE "Ok"

\* faulty variant: the used check comes before the code check
use_ticket_checks_UsedFirst(caller, ticket_id, verification_code) ==
    IF ticket_id \notin DOMAIN tickets THEN "TicketNotFound"
    ELSE LET ticket == tickets[ticket_id]
         IN  IF ticket.is_used THEN "AlreadyUsed"
             ELSE IF ticket.verification_code # verification_code
             THEN "InvalidVerificationCode"
             ELSE IF ticket.event_id \notin DOMAIN events THEN "EventNotFound"
             ELSE IF caller # events[ticket.event_id].organizer THEN "Unauthorized"
             ELSE "Ok"

\* faulty variant: the organizer check comes before the used check
use_ticket_checks_AuthFirst(caller, ticket_id, verification_code) ==
    IF ticket_id \notin DOMAIN tickets THEN "TicketNotFound"
    ELSE LET ticket == tickets[ticket_id]
         IN  IF ticket.verification_code # verification_code
             THEN "InvalidVerificationCode"
             ELSE IF ticket.event_id \notin DOMAIN events THEN "EventNotFound"
             ELSE IF caller # events[ticket.event_id].organizer THEN "Unauthorized"
             ELSE IF ticket.is_used THEN "AlreadyUsed"
             ELSE "Ok"

\* faulty variant: the ticket's owner may redeem as well
use_ticket_checks_OwnerToo(caller, ticket_id, verification_code) ==
    IF ticket_id \notin DOMAIN tickets THEN "TicketNotFound"
    ELSE LET ticket == tickets[ticket_id]
         IN  IF ticket.verification_code # verification_code
             THEN "InvalidVerificationCode"
             ELSE IF ticket.is_used THEN "AlreadyUsed"
             ELSE IF ticket.event_id \notin DOMAIN events THEN "EventNotFound"
             ELSE IF caller # events[ticket.event_id].organizer
                     /\ caller # ticket.owner
                  THEN "Unauthorized"
             ELSE "Ok"

\* the checks of use_ticket: the first failing one, or "Ok"
use_ticket_checks(caller, ticket_id, verification_code) ==
    IF ticket_id \notin DOMAIN tickets THEN "TicketNotFound"
    ELSE LET ticket == tickets[ticket_id]
         IN  IF ticket.verification_code # verification_code
             THEN "InvalidVerificationCode"
             ELSE IF ticket.is_used THEN "AlreadyUsed"
             ELSE IF ticket.event_id \notin DOMAIN events THEN "EventNotFound"
             ELSE IF caller # events[ticket.event_id].organizer THEN "Unauthorized"
             ELSE "Ok"

use_ticket(caller, ticket_id, verification_code) ==
    LET res == use_ticket_checks(caller, ticket_id, verification_code)
    IN  /\ last' = Call("use_ticket", caller, ticket_id, 0, verification_code,
                        res, {})
        /\ tickets' = IF res = "Ok"
                      THEN [tickets EXCEPT ![ticket_id].is_used = TRUE]
                      ELSE tickets
        /\ UNCHANGED <<events, purchases, user_profiles, user_event_purchases,
                       event_counter, ticket_counter, purchase_counter, now>>

UseTicket ==
    /\ last = Idle
    /\ \E caller \in Principals, ticket_id \in 1..(ticket_counter + 1),
       verification_code \in PresentedCodes :
        use_ticket(caller, ticket_id, verification_code)
    /\ WithinBounds

\* ------------------------------------------------------- deactivate_event
\* faulty variant: the organizer check is missing
deactivate_event_checks_AnyCaller(caller, event_id) ==
    IF event_id \notin DOMAIN events THEN "EventNotFound"
    ELSE "Ok"

deactivate_event_checks(caller, event_id) ==
    IF event_id \notin DOMAIN events THEN "EventNotFound"
    ELSE IF events[event_id].organizer # caller THEN "Unauthorized"
    ELSE "Ok"

deactivate_event(caller, event_id) ==
    LET res == deactivate_event_checks(caller, event_id)
    IN  /\ last' = Call("deactivate_event", caller, event_id, 0, NoCode, res, {})
        /\ events' = IF res = "Ok"
                     THEN [events EXCEPT ![event_id].is_active = FALSE]
                     ELSE events
        /\ UNCHANGED <<tickets, purchases, user_profiles, user_event_purchases,
                       event_counter, ticket_counter, purchase_counter, now>>

DeactivateEvent ==
    /\ last = Idle
    /\ \E caller \in Principals, event_id \in 1..(event_counter + 1) :
        deactivate_event(caller, event_id)
    /\ WithinBounds

\* ------------------------------------------------------- get_user_profile
get_user_profile(user) ==
    /\ user_profiles' = get_or_create_user_profile(user_profiles, user)
    /\ last' = Call("get_user_profile", user, 0, 0, NoCode, "Ok", {})
    /\ UNCHANGED <<events, tickets, purchases, user_event_purchases,
                   event_counter, ticket_counter, purchase_counter, now>>

GetUserProfile ==
    /\ last = Idle
    /\ \E user \in Principals : get_user_profile(user)
    /\ WithinBounds

\* ----------------------------------------------------------------- queries
\* BTreeMap::values(): the values in increasing key order
values(map) ==
    [i \in 1..Cardinality(DOMAIN map) |->
        map[CHOOSE k \in DOMAIN map :
                Cardinality({j \in DOMAIN map : j <= k}) = i]]

get_event_result(event_id) ==
    IF event_id \in DOMAIN events THEN "Ok" ELSE "EventNotFound"

get_event(event_id) ==
    /\ last' = Call("get_event", "none", event_id, 0, NoCode, get_event_result(event_id), {})
    /\ UNCHANGED <<store, now>>

GetEvent ==
    /\ last = Idle
    /\ \E event_id \in 1..(event_counter + 1) : get_event(event_id)

get_all_events_result == values(events)

get_all_events ==
    /\ last' = Call("get_all_events", "none", 0, 0, NoCode, "Ok", {})
    /\ UNCHANGED <<store, now>>

GetAllEvents == last = Idle /\ get_all_events

\* the events listed at current_time
get_active_events_result(current_time) ==
    SelectSeq(values(events),
              LAMBDA event : event.is_active /\ event.sale_end_time > current_time)

get_active_events ==
    /\ last' = Call("get_active_events", "none", 0, 0, NoCode, "Ok", {})
    /\ UNCHANGED <<store, now>>

GetActiveEvents == last = Idle /\ get_active_events

get_user_tickets_result(user) ==
    SelectSeq(values(tickets), LAMBDA ticket : ticket.owner = user)

get_user_tickets(user) ==
    /\ last' = Call("get_user_tickets", user, 0, 0, NoCode, "Ok", {})
    /\ UNCHANGED <<store, now>>

GetUserTickets ==
    /\ last = Idle
    /\ \E user \in Principals : get_user_tickets(user)

get_user_purchases_result(user) ==
    SelectSeq(values(purchases), LAMBDA purchase : purchase.buyer = user)

get_user_purchases(user) ==
    /\ last' = Call("get_user_purchases", user, 0, 0, NoCode, "Ok", {})
    /\ UNCHANGED <<store, now>>

GetUserPurchases ==
    /\ last = Idle
    /\ \E user \in Principals : get_user_purchases(user)

verify_ticket_result(ticket_id, verification_code) ==
    IF ticket_id \notin DOMAIN tickets THEN "TicketNotFound"
    ELSE IF tickets[ticket_id].verification_code # verification_code
         THEN "InvalidVerificationCode"
    ELSE "Ok"

verify_ticket(ticket_id, verification_code) ==
    /\ last' = Call("verify_ticket", "none", ticket_id, 0, verification_code,
                    verify_ticket_result(ticket_id, verification_code), {})
    /\ UNCHANGED <<store, now>>

VerifyTicket ==
    /\ last = Idle
    /\ \E ticket_id \in 1..(ticket_counter + 1),
          verification_code \in PresentedCodes :
        verify_ticket(ticket_id, verification_code)

\* event.total_tickets - event.available_tickets
sold_tickets(event) == event.total_tickets - event.available_tickets

\* (sold_tickets, available_tickets, total_revenue) of an existing event,
\* the u64 product taken modulo 2^64
get_event_statistics_result(event_id) ==
    LET event == events[event_id]
    IN  <<sold_tickets(event), event.available_tickets,
          WrappingMul(event.price_icp, sold_tickets(event))>>

\* the product of line 359 leaves u64: the call traps in a build with
\* overflow checks and returns the wrapped product in one without
statistics_overflow(event_id) ==
    MulOverflows(events[event_id].price_icp, sold_tickets(events[event_id]))

get_event_statistics(event_id) ==
    /\ \E res \in (IF event_id \notin DOMAIN events THEN {"EventNotFound"}
                   ELSE IF statistics_overflow(event_id) THEN {"Ok", "Trap"}
                   ELSE {"Ok"}) :
           last' = Call("get_event_statistics", "none", event_id, 0, NoCode, res, {})
    /\ UNCHANGED <<store, now>>

GetEventStatistics ==
    /\ last = Idle
    /\ \E event_id \in 1..(event_counter + 1) : get_event_statistics(event_id)

Next ==
    \/ Tick
    \/ Deliver
    \/ CreateEvent
    \/ PurchaseTickets
    \/ UseTicket
    \/ DeactivateEvent
    \/ GetUserProfile

Spec == Init /\ [][Next]_vars

\* the update calls together with the query calls
NextWithQueries ==
    \/ Next
    \/ GetEvent
    \/ GetAllEvents
    \/ GetActiveEvents
    \/ GetUserTickets
    \/ GetUserPurchases
    \/ VerifyTicket
    \/ GetEventStatistics

SpecWithQueries == Init /\ [][NextWithQueries]_vars

\* ------------------------------------------------------------ properties
RECURSIVE SumQuantity(_)
SumQuantity(ids) ==
    IF ids = {} THEN 0
    ELSE LET p == CHOOSE x \in ids : TRUE
         IN  purchases[p].quantity + SumQuantity(ids \ {p})

PurchasesOfEvent(e) == {p \in DOMAIN purchases : purchases[p].event_id = e}

PurchasesOfUserForEvent(u, e) ==
    {p \in DOMAIN purchases :
        purchases[p].buyer = u /\ purchases[p].event_id = e}

PurchaseErrors ==
    {"EventNotFound", "EventInactive", "SaleNotStarted", "SaleEnded",
     "InsufficientTickets", "ExceedsMaxTicketsPerUser"}

\* the step in which the canister executes a call of method op
Executes(op) == last = Idle /\ last'.op = op

\* C1: no oversell.  For every event, 0 <= available_tickets <= total_tickets
\* and available_tickets = total_tickets - (sum of quantity over the
\* Purchase records of that event).
C1_NoOversell ==
    \A e \in DOMAIN events :
        /\ 0 <= events[e].available_tickets
        /\ events[e].available_tickets <= events[e].total_tickets
        /\ events[e].available_tickets =
               events[e].total_tickets - SumQuantity(PurchasesOfEvent(e))

\* an event sold out over two purchases turns a further request away
C1_SoldOutRejects ==
    /\ last.op = "purchase_tickets"
    /\ last.result = "InsufficientTickets"
    /\ last.id \in DOMAIN events
    /\ events[last.id].available_tickets = 0
    /\ Cardinality(PurchasesOfEvent(last.id)) = 2

\* C2: per-user cap.  For every (user, event) pair the stored cumulative
\* count (0 if absent) equals the sum of quantity over that user's Purchase
\* records for the event and is at most the event's max_tickets_per_user.
C2_PerUserCap ==
    /\ \A k \in DOMAIN user_event_purchases :
           k[1] \in Principals /\ k[2] \in DOMAIN events
    /\ \A u \in Principals, e \in DOMAIN events :
           /\ current_user_purchases(u, e) =
                  SumQuantity(PurchasesOfUserForEvent(u, e))
           /\ current_user_purchases(u, e) <= events[e].max_tickets_per_user

\* a user who already holds tickets asks for more than the cap leaves
C2_CapReached ==
    /\ last.op = "purchase_tickets"
    /\ last.result = "ExceedsMaxTicketsPerUser"
    /\ current_user_purchases(last.caller, last.id) >= 1
    /\ PurchasesOfUserForEvent(last.caller, last.id) # {}

\* C3: atomicity of failure.  A purchase_tickets call that returns an error
\* leaves events, tickets, purchases, user profiles, cumulative counts and
\* the id counters as they were before the call.
C3_FailedPurchaseChangesNothing ==
    [][ (Executes("purchase_tickets") /\ last'.result \in PurchaseErrors)
            => UNCHANGED store ]_vars

\* a purchase is refused on a deactivated event that has sold tickets
C3_RefusedAfterSales ==
    /\ last.op = "purchase_tickets"
    /\ last.result = "EventInactive"
    /\ PurchasesOfEvent(last.id) # {}
    /\ DOMAIN user_profiles # {}

\* C4: one-time redemption.  A used ticket stays used, and use_ticket on a
\* used ticket with its verification code returns AlreadyUsed to any caller.
C4_UsedStaysUsed ==
    [][ /\ \A t \in DOMAIN tickets :
               tickets[t].is_used => (t \in DOMAIN tickets' /\ tickets'[t].is_used)
        /\ ( /\ Executes("use_ticket")
             /\ last'.id \in DOMAIN tickets
             /\ tickets[last'.id].is_used
             /\ last'.code = tickets[last'.id].verification_code )
               => last'.result = "AlreadyUsed" ]_vars

\* somebody who is not the organizer presents a used ticket again
C4_StrangerRetriesUsed ==
    /\ last.op = "use_ticket"
    /\ last.result = "AlreadyUsed"
    /\ last.caller # events[tickets[last.id].event_id].organizer
    /\ tickets[last.id].is_used

\* C5: only the organizer redeems.  is_used turns true only in a use_ticket
\* call by the organizer of the ticket's event with the stored code, and an
\* unused ticket presented with the right code by anybody else is answered
\* Unauthorized and stays unused.
C5_OnlyOrganizerRedeems ==
    [][ /\ \A t \in DOMAIN tickets :
               (~tickets[t].is_used /\ tickets'[t].is_used) =>
                   /\ last'.op = "use_ticket"
                   /\ last'.result = "Ok"
                   /\ last'.id = t
                   /\ last'.caller = events[tickets[t].event_id].organizer
                   /\ last'.code = tickets[t].verification_code
        /\ ( /\ Executes("use_ticket")
             /\ last'.id \in DOMAIN tickets
             /\ ~tickets[last'.id].is_used
             /\ last'.code = tickets[last'.id].verification_code
             /\ last'.caller # events[tickets[last'.id].event_id].organizer )
               => /\ last'.result = "Unauthorized"
                  /\ ~tickets'[last'.id].is_used ]_vars

\* the owner of a ticket, not the organizer, tries to redeem it
C5_OwnerRefused ==
    /\ last.op = "use_ticket"
    /\ last.result = "Unauthorized"
    /\ last.caller = tickets[last.id].owner
    /\ last.code = tickets[last.id].verification_code
    /\ ~tickets[last.id].is_used

\* C6: verification codes are unique: no two distinct tickets carry the same
\* verification_code.
C6_CodesUnique ==
    \A t1, t2 \in DOMAIN tickets :
        t1 # t2 => tickets[t1].verification_code # tickets[t2].verification_code

\* tickets of two events exist, two of them minted by one purchase
C6_TicketsAcrossEvents ==
    /\ \E t1, t2 \in DOMAIN tickets : tickets[t1].event_id # tickets[t2].event_id
    /\ \E p \in DOMAIN purchases : Len(purchases[p].ticket_ids) = 2

\* C7: purchase record integrity.  A successful purchase_tickets(event_id,
\* quantity) by b returns the stored Purchase; its ticket_ids are quantity
\* distinct ids that were no ticket before the call and are in no other
\* Purchase; each names a ticket owned by b, of the purchase's event (which
\* exists), created unused.
C7_PurchaseIntegrity ==
    [][ (Executes("purchase_tickets") /\ last'.result = "Ok") =>
          /\ Cardinality(last'.ret) = 1
          /\ \A p \in last'.ret :
               /\ p.id \in DOMAIN purchases' /\ purchases'[p.id] = p
               /\ p.id \notin DOMAIN purchases
               /\ p.buyer = last'.caller
               /\ p.event_id = last'.id /\ p.event_id \in DOMAIN events'
               /\ p.quantity = last'.quantity
               /\ Len(p.ticket_ids) = p.quantity
               /\ \A i, j \in 1..Len(p.ticket_ids) :
                      i # j => p.ticket_ids[i] # p.ticket_ids[j]
               /\ \A i \in 1..Len(p.ticket_ids) :
                      LET t == p.ticket_ids[i]
                      IN  /\ t \notin DOMAIN tickets
                          /\ t \in DOMAIN tickets'
                          /\ tickets'[t].id = t
                          /\ tickets'[t].owner = p.buyer
                          /\ tickets'[t].event_id = p.event_id
                          /\ tickets'[t].is_used = FALSE
                          /\ \A q \in DOMAIN purchases' :
                                 q # p.id =>
                                   \A k \in 1..Len(purchases'[q].ticket_ids) :
                                       purchases'[q].ticket_ids[k] # t ]_vars

\* a second purchase has just minted two tickets after an earlier one
C7_TwoTicketPurchase ==
    /\ last.op = "purchase_tickets"
    /\ last.result = "Ok"
    /\ last.quantity = 2
    /\ purchase_counter = 2
    /\ ticket_counter = 3

\* C8: every stored Purchase has quantity >= 1.
C8_QuantityPositive ==
    \A p \in DOMAIN purchases : purchases[p].quantity >= 1

\* C9: every Purchase's total_amount is price_icp * quantity as a
\* mathematical integer, and no purchase aborts on the multiplication.
C9_TotalAmountExact ==
    /\ last.result # "Trap"
    /\ \A p \in DOMAIN purchases :
           purchases[p].total_amount \o <<0>> =
               WideMul(events[purchases[p].event_id].price_icp,
                       purchases[p].quantity)

ImmutableFields(ev) ==
    <<ev.id, ev.name, ev.description, ev.venue, ev.date, ev.organizer,
      ev.total_tickets, ev.price_icp, ev.max_tickets_per_user,
      ev.sale_start_time, ev.sale_end_time>>

\* C10: deactivation authorization.  is_active changes only in a
\* deactivate_event call by the event's organizer; a call by anybody else
\* returns Unauthorized, one on an unknown id EventNotFound, and both leave
\* every event unchanged; no step changes an event's organizer,
\* total_tickets, price_icp, max_tickets_per_user or sale window.
C10_DeactivationAuthorized ==
    [][ /\ \A e \in DOMAIN events :
               /\ e \in DOMAIN events'
               /\ ImmutableFields(events'[e]) = ImmutableFields(events[e])
               /\ events'[e].is_active # events[e].is_active =>
                      /\ last'.op = "deactivate_event"
                      /\ last'.result = "Ok"
                      /\ last'.id = e
                      /\ last'.caller = events[e].organizer
        /\ Executes("deactivate_event") =>
               /\ last'.id \notin DOMAIN events =>
                      (last'.result = "EventNotFound" /\ events' = events)
               /\ ( /\ last'.id \in DOMAIN events
                    /\ last'.caller # events[last'.id].organizer ) =>
                      (last'.result = "Unauthorized" /\ events' = events) ]_vars

\* the organizer of one event is refused the deactivation of another's
C10_OtherOrganizerRefused ==
    /\ last.op = "deactivate_event"
    /\ last.result = "Unauthorized"
    /\ events[last.id].is_active
    /\ \E e \in DOMAIN events : events[e].organizer = last.caller

TicketsOfEvent(e) == {t \in DOMAIN tickets : tickets[t].event_id = e}

\* C11: deactivation is final.  An inactive event stays inactive, every
\* purchase_tickets call for it returns EventInactive, and neither its
\* available_tickets nor its set of tickets changes any more.
C11_DeactivationFinal ==
    [][ \A e \in DOMAIN events :
            ~events[e].is_active =>
                /\ e \in DOMAIN events'
                /\ ~events'[e].is_active
                /\ events'[e].available_tickets = events[e].available_tickets
                /\ TicketsOfEvent(e)' = TicketsOfEvent(e)
                /\ (Executes("purchase_tickets") /\ last'.id = e)
                       => last'.result = "EventInactive" ]_vars

\* a deactivated event refuses a request it would otherwise serve: the
\* sale is open, tickets are left and the buyer is under the cap
C11_InactiveRefusesOpenSale ==
    /\ last.op = "purchase_tickets"
    /\ last.result = "EventInactive"
    /\ last.quantity >= 1
    /\ now >= events[last.id].sale_start_time
    /\ now <= events[last.id].sale_end_time
    /\ events[last.id].available_tickets >= last.quantity
    /\ current_user_purchases(last.caller, last.id) + last.quantity
           <= events[last.id].max_tickets_per_user

\* C12: sale window.  Every Purchase and every Ticket of an event carries a
\* purchase_time within [sale_start_time, sale_end_time], and a
\* purchase_tickets call made after sale_end_time does not succeed; the
\* clock never goes back.
C12_SaleWindow ==
    /\ \A p \in DOMAIN purchases :
           /\ events[purchases[p].event_id].sale_start_time <= purchases[p].purchase_time
           /\ purchases[p].purchase_time <= events[purchases[p].event_id].sale_end_time
           /\ purchases[p].purchase_time <= now
    /\ \A t \in DOMAIN tickets :
           /\ events[tickets[t].event_id].sale_start_time <= tickets[t].purchase_time
           /\ tickets[t].purchase_time <= events[tickets[t].event_id].sale_end_time
           /\ tickets[t].purchase_time <= now
    /\ ( /\ last.op = "purchase_tickets"
         /\ last.id \in DOMAIN events
         /\ now > events[last.id].sale_end_time )
           => last.result \in {"EventInactive", "SaleNotStarted", "SaleEnded"}

\* a ticket was bought at the last moment of the sale, and a request that
\* comes after it is turned away
C12_LateBuyerRefused ==
    /\ last.op = "purchase_tickets"
    /\ last.result = "SaleEnded"
    /\ \E p \in PurchasesOfEvent(last.id) :
           /\ purchases[p].purchase_time = events[last.id].sale_end_time
           /\ purchases[p].quantity >= 1

\* the methods declared #[query]
QueryMethods ==
    {"get_event", "get_all_events", "get_active_events", "get_user_tickets",
     "get_user_purchases", "verify_ticket", "get_event_statistics",
     "get_user_profile"}

\* C13: queries are read-only.  A call of a #[query] method leaves events,
\* tickets, purchases, user profiles, cumulative counts and the three id
\* counters unchanged, whatever its argument.
C13_QueriesReadOnly ==
    [][ (last = Idle /\ last'.op \in QueryMethods) => UNCHANGED store ]_vars

\* a use_ticket request for ticket t with the ticket's code, sent by the
\* organizer of the ticket's event
GoodRedemption(call, t) ==
    /\ call.op = "use_ticket"
    /\ call.id = t
    /\ call.code = tickets[t].verification_code
    /\ tickets[t].event_id \in DOMAIN events
    /\ call.caller = events[tickets[t].event_id].organizer

\* C14: at most one redemption succeeds.  use_ticket runs without a
\* suspension point, so requests for one ticket are answered one after the
\* other in some order.  Of the organizer's requests with the right code,
\* the one answered while the ticket is unused succeeds and marks it used,
\* every one answered afterwards gets AlreadyUsed; no use_ticket call at all
\* succeeds on a used ticket, and a used ticket never becomes unused: over
\* the life of a ticket at most one call succeeds.
C14_SingleRedemption ==
    [][ \A t \in DOMAIN tickets :
            /\ tickets[t].is_used => (t \in DOMAIN tickets' /\ tickets'[t].is_used)
            /\ (Executes("use_ticket") /\ last'.id = t) =>
                   /\ last'.result = "Ok" =>
                          ~tickets[t].is_used /\ tickets'[t].is_used
                   /\ GoodRedemption(last', t) =>
                          last'.result = IF tickets[t].is_used
                                         THEN "AlreadyUsed" ELSE "Ok" ]_vars

C14_SecondRedemptionRefused ==
    /\ last.op = "use_ticket"
    /\ last.id \in DOMAIN tickets
    /\ GoodRedemption(last, last.id)
    /\ last.result = "AlreadyUsed"
    /\ tickets[last.id].is_used

\* the error purchase_tickets(e, q) by u is to return in the current state
\* according to the documented order of checks, or "Ok" when all six pass
FirstFailingCheck(u, e, q) ==
    CASE e \notin DOMAIN events -> "EventNotFound"
      [] e \in DOMAIN events /\ ~events[e].is_active -> "EventInactive"
      [] e \in DOMAIN events /\ events[e].is_active
         /\ now < events[e].sale_start_time -> "SaleNotStarted"
      [] e \in DOMAIN events /\ events[e].is_active
         /\ now >= events[e].sale_start_time
         /\ now > events[e].sale_end_time -> "SaleEnded"
      [] e \in DOMAIN events /\ events[e].is_active
         /\ now >= events[e].sale_start_time
         /\ now <= events[e].sale_end_time
         /\ events[e].available_tickets < q -> "InsufficientTickets"
      [] e \in DOMAIN events /\ events[e].is_active
         /\ now >= events[e].sale_start_time
         /\ now <= events[e].sale_end_time
         /\ events[e].available_tickets >= q
         /\ SumQuantity(PurchasesOfUserForEvent(u, e)) + q
                > events[e].max_tickets_per_user -> "ExceedsMaxTicketsPerUser"
      [] OTHER -> "Ok"

\* C15: purchase validation order.  purchase_tickets returns the error of
\* the first failing check in the order EventNotFound, EventInactive,
\* SaleNotStarted, SaleEnded, InsufficientTickets, ExceedsMaxTicketsPerUser,
\* a breach of the cap leaves available_tickets unchanged, and the call
\* succeeds exactly when all six checks pass.
C15_ValidationOrder ==
    [][ Executes("purchase_tickets") =>
            /\ last'.result = FirstFailingCheck(last'.caller, last'.id, last'.quantity)
            /\ last'.result = "ExceedsMaxTicketsPerUser" => events' = events ]_vars

\* the same with the last part left out: whenever the call returns, it
\* returns what the order of checks prescribes
C15_ValidationOrderOfReturns ==
    [][ (Executes("purchase_tickets") /\ last'.result # "Trap") =>
            /\ last'.result = FirstFailingCheck(last'.caller, last'.id, last'.quantity)
            /\ last'.result = "ExceedsMaxTicketsPerUser" => events' = events ]_vars

\* C16: redemption check order.  use_ticket returns the error of the first
\* failing check in the order TicketNotFound, InvalidVerificationCode,
\* AlreadyUsed, Unauthorized; an error leaves all tickets unchanged, a
\* success changes only the is_used of that ticket, and EventNotFound is
\* never returned because the event of every ticket exists.
C16_RedemptionOrder ==
    [][ /\ \A t \in DOMAIN tickets' : tickets'[t].event_id \in DOMAIN events'
        /\ Executes("use_ticket") =>
            LET t == last'.id
                r == last'.result
                known == t \in DOMAIN tickets
                coded == tickets[t].verification_code = last'.code
                fresh == ~tickets[t].is_used
                organizer == events[tickets[t].event_id].organizer
            IN  /\ r \in {"TicketNotFound", "InvalidVerificationCode",
                           "AlreadyUsed", "Unauthorized", "Ok"}
                /\ r = "TicketNotFound" <=> ~known
                /\ known => (r = "InvalidVerificationCode" <=> ~coded)
                /\ (known /\ coded) => (r = "AlreadyUsed" <=> ~fresh)
                /\ (known /\ coded /\ fresh) =>
                       (r = "Unauthorized" <=> last'.caller # organizer)
                /\ r # "Ok" => tickets' = tickets
                /\ r = "Ok" =>
                       /\ DOMAIN tickets' = DOMAIN tickets
                       /\ \A x \in DOMAIN tickets \ {t} : tickets'[x] = tickets[x]
                       /\ tickets'[t] = [tickets[t] EXCEPT !.is_used = TRUE]
                       /\ UNCHANGED <<events, purchases, user_profiles,
                                      user_event_purchases, event_counter,
                                      ticket_counter, purchase_counter>> ]_vars

\* a stranger presents a wrong code for a used ticket: three checks fail,
\* the code check is the one reported
C16_WrongCodeOnUsedTicket ==
    /\ last.op = "use_ticket"
    /\ last.id \in DOMAIN tickets
    /\ tickets[last.id].is_used
    /\ tickets[last.id].verification_code # last.code
    /\ last.caller # events[tickets[last.id].event_id].organizer
    /\ last.result = "InvalidVerificationCode"

\* the ids of the events get_active_events returns at the current time
ListedNow ==
    {get_active_events_result(now)[i].id :
        i \in 1..Len(get_active_events_result(now))}

\* C17: listing agrees with purchasability.  Every event for which some
\* purchase_tickets call with quantity >= 1 would succeed now is in the
\* result of get_active_events now.
C17_PurchasableIsListed ==
    \A e \in DOMAIN events :
        (\E u \in Principals, q \in 1..MaxQuantity :
            purchase_checks(u, e, q, now) = "Ok") => e \in ListedNow

\* the ids of a sequence of records, in its order
IdsOf(records) == [i \in 1..Len(records) |-> records[i].id]

StrictlyIncreasing(ids) ==
    \A i, j \in 1..Len(ids) : i < j => ids[i] < ids[j]

\* C18: ledger consistency.  For every user the profile's tickets are the
\* ids of get_user_tickets(user) and its purchases the ids of
\* get_user_purchases(user), in increasing order without duplicates (both
\* empty when no profile is stored); every stored profile has
\* reputation_score 100 and is_verified false.
C18_LedgerConsistent ==
    [](/\ \A t \in DOMAIN tickets : tickets[t].owner \in Principals
       /\ \A p \in DOMAIN purchases : purchases[p].buyer \in Principals
       /\ DOMAIN user_profiles \subseteq Principals
       /\ \A u \in Principals :
            LET owned == IdsOf(get_user_tickets_result(u))
                bought == IdsOf(get_user_purchases_result(u))
            IN  IF u \in DOMAIN user_profiles
                THEN /\ user_profiles[u].tickets = owned
                     /\ user_profiles[u].purchases = bought
                     /\ StrictlyIncreasing(user_profiles[u].tickets)
                     /\ StrictlyIncreasing(user_profiles[u].purchases)
                     /\ user_profiles[u].reputation_score = 100
                     /\ user_profiles[u].is_verified = FALSE
                ELSE owned = <<>> /\ bought = <<>>)

\* one user has bought two tickets in two purchases, and another user's
\* purchase lies in between
C18_InterleavedBuyers ==
    \E u, v \in Principals :
        /\ u # v
        /\ u \in DOMAIN user_profiles
        /\ v \in DOMAIN user_profiles
        /\ Len(user_profiles[u].purchases) = 2
        /\ Len(user_profiles[u].tickets) = 2
        /\ Len(user_profiles[v].purchases) = 1
        /\ user_profiles[u].purchases[1] < user_profiles[v].purchases[1]
        /\ user_profiles[v].purchases[1] < user_profiles[u].purchases[2]

\* C19: no overflow in the cap check, no underflow in the stock.  Every
\* purchase_tickets call that reaches the cap check (the event exists, is
\* active, the sale is open and quantity <= available_tickets) finds
\* current_user_purchases + quantity at most total_tickets, a u32, whatever
\* max_tickets_per_user is; an accepted call subtracts a quantity that is
\* at most available_tickets; and after every step available_tickets lies
\* in 0..total_tickets, so total_tickets - available_tickets is not
\* negative.
C19_CapSumBounded ==
    [][ /\ \A e \in DOMAIN events' :
               /\ events'[e].available_tickets >= 0
               /\ events'[e].available_tickets <= events'[e].total_tickets
        /\ Executes("purchase_tickets") =>
               LET e == last'.id
                   q == last'.quantity
                   current == current_user_purchases(last'.caller, e)
               IN  /\ (/\ e \in DOMAIN events
                       /\ events[e].is_active
                       /\ now >= events[e].sale_start_time
                       /\ now <= events[e].sale_end_time
                       /\ q <= events[e].available_tickets) =>
                          /\ current >= 0
                          /\ current + q <= events[e].total_tickets
                   /\ last'.result = "Ok" =>
                          /\ q <= events[e].available_tickets
                          /\ events'[e].available_tickets =
                                 events[e].available_tickets - q ]_vars

\* a buyer now holds every ticket of an event that its cap does not limit:
\* the cap check was reached with a sum equal to total_tickets
C19_BuyerHoldsAll ==
    /\ last.op = "purchase_tickets"
    /\ last.result = "Ok"
    /\ last.quantity >= 1
    /\ events[last.id].available_tickets = 0
    /\ events[last.id].max_tickets_per_user >= events[last.id].total_tickets
    /\ current_user_purchases(last.caller, last.id) = events[last.id].total_tickets

\* the sum of two numbers given as limbs of equal length (the carry out of
\* the last limb is dropped)
RECURSIVE AddLimbs(_, _, _, _)
AddLimbs(a, b, i, carry) ==
    IF i > Len(a) THEN <<>>
    ELSE LET t == a[i] + b[i] + carry
         IN  <<t % LimbBase>> \o AddLimbs(a, b, i + 1, t \div LimbBase)

\* the sum of total_amount over a set of purchases as a mathematical
\* integer, in U64Limbs + 1 limbs
RECURSIVE SumAmount(_)
SumAmount(ids) ==
    IF ids = {} THEN <<0, 0, 0, 0, 0>>
    ELSE LET p == CHOOSE x \in ids : TRUE
         IN  AddLimbs(purchases[p].total_amount \o <<0>>,
                      SumAmount(ids \ {p}), 1, 0)

\* C20: statistics match the records.  get_event_statistics answers
\* EventNotFound for an unknown id and (sold, available, revenue) for an
\* existing event, where sold = total_tickets - available_tickets is the
\* number of the event's tickets, sold + available = total_tickets, and
\* revenue is sold * price_icp and the sum of total_amount over the event's
\* purchases.
C20_StatisticsMatch ==
    /\ last.op = "get_event_statistics" =>
           last.result = IF last.id \in DOMAIN events THEN "Ok" ELSE "EventNotFound"
    /\ \A e \in DOMAIN events :
           LET stats == get_event_statistics_result(e)
           IN  /\ stats[1] = events[e].total_tickets - events[e].available_tickets
               /\ stats[1] + stats[2] = events[e].total_tickets
               /\ stats[1] = Cardinality(TicketsOfEvent(e))
               /\ stats[3] \o <<0>> = WideMul(events[e].price_icp, stats[1])
               /\ stats[3] \o <<0>> = SumAmount(PurchasesOfEvent(e))

\* the part about the counts alone
C20_CountsMatch ==
    \A e \in DOMAIN events :
        LET stats == get_event_statistics_result(e)
        IN  /\ stats[1] = events[e].total_tickets - events[e].available_tickets
            /\ stats[1] + stats[2] = events[e].total_tickets
            /\ stats[1] = Cardinality(TicketsOfEvent(e))
====
